---------------------------- MODULE Spec2Model ----------------------------
(***************************************************************************)
(* The aws_lex_bot and aws_lex_bot_alias resources of the AWS provider:    *)
(* the CRUD handlers with their conflict-retry loops, the alias importer,  *)
(* and the flatten/expand translation of messages and statements.          *)
(*                                                                         *)
(* Strings that the code splits or compares character by character (ids    *)
(* and names) are sequences of one-character strings; <<>> is "".          *)
(* A Go pointer is a sequence of length 0 (nil) or 1 (the value).          *)
(***************************************************************************)
EXTENDS Integers, Sequences, FiniteSets, TLC

VARIABLES
  kind,        \* "bot" | "alias": the resource type of the instance followed
  d,           \* the schema.ResourceData of the instance (id and attributes)
  life,        \* the framework's record of the instance
  remote,      \* the object held by the Lex model building service
  pc,          \* position inside the running handler, "idle" between handlers
  op,          \* the handler running, or the last one run
  input,       \* the request the running handler built before its first call
  calls,       \* the remote calls the current handler has issued, in order
  elapsed,     \* attempts made inside the current resource.Retry
  ceiling,     \* minutes given to the resource.Retry of the current handler
  result,      \* "none" while a handler runs, then "ok" or "error"
  err,         \* the error the last handler returned
  lastReadChecksum, \* history: checksum written by the last Read that got data
  oobSinceRead,     \* history: the remote changed out of band since that Read
  inSync,           \* history: the remote has not changed at all since that Read
  freshReads,       \* history: Reads that got data in a row, nothing else changing
  configuredPB,     \* history: process_behavior of the last applied configuration
  tFn,         \* translation run: the function pair applied
  tIn,         \* translation run: the flat input
  tMid,        \* translation run: the expanded API object
  tOut,        \* translation run: the flattened result
  tpc          \* translation run: "in" | "expanded" | "flattened"

rvars == <<ceiling, kind, d, life, remote, pc, op, input, calls, elapsed, result, err,
           lastReadChecksum, oobSinceRead, inSync, freshReads, configuredPB>>
tvars == <<tFn, tIn, tMid, tOut, tpc>>
vars == <<rvars, tvars>>

---------------------------------------------------------------------------
(* Bounds of the model *)

MaxAttempts == 3     \* attempts a resource.Retry can make before its timeout
MaxChecksum == 3     \* revisions the remote object can go through
MaxIdLen == 4        \* length of an import identifier
MaxReads == 2        \* Reads in a row that are counted
MaxMsgs == 2         \* messages in a statement

---------------------------------------------------------------------------
(* Values *)

Nil == <<>>
Ptr(v) == <<v>>
Deref(p) == p[1]

EmptyStr == <<>>
Alphabet == {"a", "b"}
Dot == "."

Letters == Alphabet
Digits == {"1"}

lexNameMinLength == 1
lexNameMaxLength == 100
lexVersionMinLength == 1
lexVersionMaxLength == 64
lexBotNameMinLength == 2
lexBotNameMaxLength == 50

\* validation.StringLenBetween
StringLenBetween(s, min, max) == Len(s) >= min /\ Len(s) <= max

\* validation.StringMatch with ^([A-Za-z]_?)+$: letters, each optionally
\* followed by one underscore, from the start to the end of the string
MatchesNameRegex(s) ==
  /\ Len(s) >= 1
  /\ \A i \in 1..Len(s) :
       \/ s[i] \in Letters
       \/ s[i] = "_" /\ i > 1 /\ s[i - 1] \in Letters

\* the characters of a version string
LatestText == <<"$", "L", "A", "T", "E", "S", "T">>
VersionText(v) ==
  CASE v = "$LATEST" -> LatestText
    [] v = "1" -> <<"1">>
    [] v = "v1" -> <<"v", "1">>
    [] v = "v" -> <<"v">>
    [] v = "" -> <<>>

\* validation.StringMatch with \$LATEST|[0-9]+ : the pattern has no anchors,
\* so it matches a string that contains $LATEST or a digit anywhere
MatchesVersionRegex(t) ==
  \/ \E i \in 1..Len(t) :
       i + Len(LatestText) - 1 <= Len(t) /\ SubSeq(t, i, i + Len(LatestText) - 1) = LatestText
  \/ \E i \in 1..Len(t) : t[i] \in Digits

\* the ValidateFunc of "name" of aws_lex_bot and of "bot_name" of aws_lex_bot_alias
ValidateBotName(s) ==
  StringLenBetween(s, lexBotNameMinLength, lexBotNameMaxLength) /\ MatchesNameRegex(s)

\* the ValidateFunc of "name" of aws_lex_bot_alias
ValidateAliasName(s) ==
  StringLenBetween(s, lexNameMinLength, lexNameMaxLength) /\ MatchesNameRegex(s)

\* the ValidateFunc of "version" and "bot_version"
ValidateVersion(v) ==
  /\ StringLenBetween(VersionText(v), lexVersionMinLength, lexVersionMaxLength)
  /\ MatchesVersionRegex(VersionText(v))

\* what a configuration can say, and what passes the schema's validation:
\* the handlers only ever see a validated configuration
RawBotNames == {<<"a", "b">>, <<"b", "a">>, <<"a">>, <<"_", "a">>}
RawAliasNames == {<<"a">>, <<"b">>, <<"_">>}
RawVersions == {"$LATEST", "v1", "v"}

BotNames == {n \in RawBotNames : ValidateBotName(n)}
AliasNames == {n \in RawAliasNames : ValidateAliasName(n)}
Versions == {v \in RawVersions : ValidateVersion(v)}
Descriptions == {"", "x"}
VoiceIds == {"", "Salli"}
ProcessBehaviorSave == "Save"
ProcessBehaviorBuild == "Build"
ProcessBehaviors == {ProcessBehaviorSave, ProcessBehaviorBuild}

\* an error: its message, the names the message interpolates, the error it wraps
NoErr == [msg |-> "", names |-> <<>>, cause |-> Nil]
Errorf(msg, names, cause) == [msg |-> msg, names |-> names, cause |-> Ptr(cause)]
RemoteErr(code) == [msg |-> code, names |-> <<>>, cause |-> Nil]

BlankBot ==
  [id |-> EmptyStr, name |-> EmptyStr, version |-> "", checksum |-> 0,
   description |-> "", process_behavior |-> "", voice_id |-> ""]

BlankAlias ==
  [id |-> EmptyStr, bot_name |-> EmptyStr, bot_version |-> "", checksum |-> 0,
   description |-> "", name |-> EmptyStr]

AbsentBot ==
  [status |-> "absent", name |-> EmptyStr, checksum |-> 0, description |-> "",
   version |-> "", voice_id |-> Nil]

AbsentAlias ==
  [status |-> "absent", bot_name |-> EmptyStr, name |-> EmptyStr, checksum |-> 0,
   description |-> "", bot_version |-> ""]

NoInput == [api |-> "none"]

Last(s) == s[Len(s)]

\* d.GetOk: the value counts as set when it is not the zero value
GetOkStr(v) == IF v # "" THEN Ptr(v) ELSE Nil


---------------------------------------------------------------------------
(* The remote service, as the handlers see it through conn.*.              *)

\* GetBot addresses the bot by name, GetBotAlias by (bot name, alias name)
RemoteFound(r, req) ==
  /\ r.status # "absent"
  /\ IF kind = "bot" THEN r.name = req.Name
     ELSE r.bot_name = req.BotName /\ r.name = req.Name

\* what a Get can answer: the object, not-found, or some other failure
GetResponses(r, req) ==
  IF RemoteFound(r, req) THEN {"OK", "Other"} ELSE {"NotFound", "Other"}

\* what a Put can answer; a success makes a new revision
PutResponses(r) ==
  {"Conflict", "Other"} \cup (IF r.checksum < MaxChecksum THEN {"OK"} ELSE {})

DeleteResponses(r, req) ==
  {"Conflict", "Other"} \cup (IF RemoteFound(r, req) THEN {"OK"} ELSE {"NotFound"})

RemoteAfterPutBot(r, in) ==
  [status |-> "present", name |-> in.Name, checksum |-> r.checksum + 1,
   description |-> IF in.Description = Nil THEN "" ELSE Deref(in.Description),
   version |-> "$LATEST", voice_id |-> in.VoiceId]

RemoteAfterPutBotAlias(r, in) ==
  [status |-> "present", bot_name |-> in.BotName, name |-> in.Name,
   checksum |-> r.checksum + 1,
   description |-> IF in.Description = Nil THEN "" ELSE Deref(in.Description),
   bot_version |-> in.BotVersion]

\* a successful delete is visible to Get only once the service has settled
RemoteAfterDelete(r) == [r EXCEPT !.status = "deleting"]

---------------------------------------------------------------------------
(* The framework's record of the instance (helper/schema Resource.Apply,   *)
(* Refresh and the importer): an instance whose id is empty is dropped, a  *)
(* Create that fails after SetId leaves it tainted, an imported one is     *)
(* refreshed before anything else.                                         *)

LifeAfter(o, res, newd, old) ==
  IF newd.id = EmptyStr THEN "absent"
  ELSE IF o = "Delete" /\ res = "ok" THEN "absent"
  ELSE IF o = "Import" THEN (IF res = "ok" THEN "imported" ELSE "absent")
  ELSE IF o = "Create" /\ res = "error" THEN "tainted"
  ELSE IF old = "imported" THEN (IF res = "ok" THEN "present" ELSE "absent")
  ELSE IF old = "absent" THEN "present"
  ELSE old

\* Timeouts of the two resources, in minutes: schema.DefaultTimeout(time.Minute)
\* for update and schema.DefaultTimeout(5 * time.Minute) for delete
BotTimeoutUpdate == 1
BotTimeoutDelete == 5
AliasTimeoutUpdate == 1
AliasTimeoutDelete == 5

\* d.Timeout(key) of an instance with no timeouts block: the default of the
\* resource; Create and Read use no timeout
Timeout(k, o) ==
  CASE o = "Update" -> (IF k = "bot" THEN BotTimeoutUpdate ELSE AliasTimeoutUpdate)
    [] o = "Delete" -> (IF k = "bot" THEN BotTimeoutDelete ELSE AliasTimeoutDelete)
    [] OTHER -> 0

\* a handler starts: nothing issued yet, no result yet
Begin(o, first) ==
  /\ pc' = first
  /\ ceiling' = Timeout(kind, o)
  /\ op' = o
  /\ calls' = <<>>
  /\ elapsed' = 0
  /\ result' = "none"
  /\ err' = NoErr

\* a handler returns
Return(res, e, newd) ==
  /\ pc' = "idle"
  /\ result' = res
  /\ err' = e
  /\ life' = LifeAfter(op, res, newd, life)

Call(api, req, resp) == [api |-> api, req |-> req, resp |-> resp]

\* mutant: the timeout never falls
TimeoutChoices_Never == {FALSE}

\* resource.Retry gives up on a retryable error once the timeout has elapsed;
\* the timeout can fall after any attempt and falls after MaxAttempts at the latest
TimeoutChoices == IF elapsed + 1 >= MaxAttempts THEN {TRUE} ELSE {TRUE, FALSE}


---------------------------------------------------------------------------
(* aws_lex_bot                                                             *)

\* the configurations the framework can hand to Create
BotConfigs ==
  [name : BotNames, version : Versions, description : Descriptions,
   process_behavior : ProcessBehaviors, voice_id : VoiceIds]

\* ... and to Update: name is ForceNew, voice_id "" keeps the computed value
BotChanges ==
  [version : Versions, description : Descriptions,
   process_behavior : ProcessBehaviors, voice_id : VoiceIds]

BotPlanned(cfg) ==
  [id |-> EmptyStr, name |-> cfg.name, version |-> cfg.version, checksum |-> 0,
   description |-> cfg.description, process_behavior |-> cfg.process_behavior,
   voice_id |-> cfg.voice_id]

BotChanged(dd, chg) ==
  [dd EXCEPT !.version = chg.version, !.description = chg.description,
             !.process_behavior = chg.process_behavior,
             !.voice_id = IF chg.voice_id = "" THEN @ ELSE chg.voice_id]

\* resourceAwsLexBotCreate: the PutBotInput, which has no Checksum
BotCreateInput(dd) ==
  [api |-> "PutBot", Name |-> dd.name, Checksum |-> Nil,
   ProcessBehavior |-> dd.process_behavior,
   Description |-> GetOkStr(dd.description), VoiceId |-> GetOkStr(dd.voice_id)]

\* mutant: Update builds its request without the checksum
BotUpdateInput_NoChecksum(dd) == [BotCreateInput(dd) EXCEPT !.Name = dd.id]

\* resourceAwsLexBotUpdate: the PutBotInput, with the stored checksum
BotUpdateInput(dd) ==
  [api |-> "PutBot", Name |-> dd.id, Checksum |-> Ptr(dd.checksum),
   ProcessBehavior |-> dd.process_behavior,
   Description |-> GetOkStr(dd.description), VoiceId |-> GetOkStr(dd.voice_id)]

BotGetInput(dd) == [api |-> "GetBot", Name |-> dd.id, VersionOrAlias |-> dd.version]

BotDeleteInput(dd) == [api |-> "DeleteBot", Name |-> dd.id]

\* mutant: Read writes the default instead of the configured value
BotReadProcessBehavior_Default(dd) == ProcessBehaviorSave

\* resourceAwsLexBotRead: process_behavior is not returned by the API
BotReadProcessBehavior(dd) ==
  IF dd.process_behavior # "" THEN dd.process_behavior ELSE ProcessBehaviorSave

\* resourceAwsLexBotRead: the d.Set calls after a GetBot that found the bot
\* mutant: Read moves the stored checksum on at every call
BotReadSet_ChecksumMoves(dd, r) ==
  [dd EXCEPT !.checksum = IF dd.checksum = r.checksum THEN r.checksum + 1 ELSE r.checksum,
             !.description = r.description,
             !.name = r.name,
             !.version = r.version]

BotReadSet(dd, r) ==
  [dd EXCEPT !.checksum = r.checksum,
             !.description = r.description,
             !.name = r.name,
             !.process_behavior = BotReadProcessBehavior(dd),
             !.version = r.version,
             !.voice_id = IF r.voice_id # Nil THEN Deref(r.voice_id) ELSE @]

\* mutant: Read leaves the id in place on a not-found answer
BotReadNotFound_KeepsId(dd) == dd

\* resourceAwsLexBotRead: a not-found answer removes the bot from the state
BotReadNotFound(dd) == [dd EXCEPT !.id = EmptyStr]

\* mutant: the closure rebuilds the request on a retry and loses the checksum
BotUpdateRequest_RebuiltOnRetry ==
  IF elapsed = 0 THEN input ELSE [input EXCEPT !.Checksum = Nil]

\* the request an attempt of Update's resource.Retry sends: the captured input
BotUpdateRequest == input

\* the closure given to resource.Retry by Update and Delete
\* mutant: a not-found answer counts as done
BotRetryVerdict_NotFoundIsDone(resp) ==
  IF resp = "Conflict" THEN "retry" ELSE IF resp \in {"OK", "NotFound"} THEN "done" ELSE "fail"

\* mutant: every error is retried
BotRetryVerdict_RetryAll(resp) == IF resp = "OK" THEN "done" ELSE "retry"

BotRetryVerdict(resp) ==
  IF resp = "Conflict" THEN "retry" ELSE IF resp = "OK" THEN "done" ELSE "fail"

\* the error of the closure's RetryableError
BotStillError(what) == Errorf(what, <<d.id>>, RemoteErr("Conflict"))

\* mutant: the error message leaves the id out
BotUpdateError_NoId(e) == Errorf("error updating bot", <<>>, e)

\* resourceAwsLexBotUpdate: the error returned when resource.Retry fails
BotUpdateError(e) == Errorf("error updating bot", <<d.id>>, e)

\* mutant: Create lets a conflict pass
CreateFails_ConflictIgnored(resp) == resp \notin {"OK", "Conflict"}

\* resourceAwsLexBotCreate and resourceAwsLexBotAliasCreate: err != nil after
\* the put, whatever the error is
CreateFails(resp) == resp # "OK"

\* mutant: Create does not adopt the name as the id
BotCreateSetId_Skipped(dd) == dd

\* resourceAwsLexBotCreate: d.SetId(name) after a PutBot that succeeded
BotCreateSetId(dd) == [dd EXCEPT !.id = dd.name]

resourceAwsLexBotCreate_Begin ==
  /\ kind = "bot" /\ pc = "idle" /\ life = "absent"
  /\ \E cfg \in BotConfigs :
       /\ d' = BotPlanned(cfg)
       /\ input' = BotCreateInput(BotPlanned(cfg))
       /\ configuredPB' = cfg.process_behavior
  /\ Begin("Create", "create_put")
  /\ lastReadChecksum' = 0 /\ oobSinceRead' = FALSE /\ inSync' = FALSE /\ freshReads' = 0
  /\ UNCHANGED <<kind, life, remote, tvars>>

resourceAwsLexBotCreate_Put ==
  /\ kind = "bot" /\ pc = "create_put"
  /\ \E resp \in PutResponses(remote) :
       /\ calls' = Append(calls, Call("PutBot", input, resp))
       /\ IF ~CreateFails(resp)
          THEN /\ remote' = RemoteAfterPutBot(remote, input)
               /\ inSync' = FALSE /\ freshReads' = 0
               /\ d' = BotCreateSetId(d)
               /\ pc' = "read"
               /\ UNCHANGED <<result, err, life>>
          ELSE /\ Return("error",
                         Errorf("error creating bot", <<d.name>>, RemoteErr(resp)), d)
               /\ UNCHANGED <<remote, inSync, freshReads, d>>
  /\ UNCHANGED <<ceiling, kind, op, input, elapsed, lastReadChecksum, oobSinceRead,
                 configuredPB, tvars>>

\* mutant: Read treats every error as not-found
ReadVerdict_AnyErrorIsGone(resp) == IF resp = "OK" THEN "found" ELSE "gone"

\* the two checks on err in resourceAwsLexBotRead and resourceAwsLexBotAliasRead:
\* isAWSErr(err, NotFoundException), then err != nil
ReadVerdict(resp) ==
  IF resp = "NotFound" THEN "gone" ELSE IF resp # "OK" THEN "fail" ELSE "found"

resourceAwsLexBotRead_Begin ==
  /\ kind = "bot" /\ pc = "idle" /\ life \in {"present", "tainted", "imported"}
  /\ Begin("Read", "read")
  /\ input' = NoInput
  /\ UNCHANGED <<kind, d, life, remote, lastReadChecksum, oobSinceRead, inSync, freshReads,
                 configuredPB, tvars>>

resourceAwsLexBotRead ==
  /\ kind = "bot" /\ pc = "read"
  /\ \E resp \in GetResponses(remote, BotGetInput(d)) :
       /\ calls' = Append(calls, Call("GetBot", BotGetInput(d), resp))
       /\ CASE ReadVerdict(resp) = "gone" ->
                 /\ d' = BotReadNotFound(d)
                 /\ Return("ok", NoErr, BotReadNotFound(d))
                 /\ freshReads' = 0
                 /\ UNCHANGED <<lastReadChecksum, oobSinceRead, inSync>>
            [] ReadVerdict(resp) = "fail" ->
                 /\ Return("error", Errorf("error getting bot", <<>>, RemoteErr(resp)), d)
                 /\ UNCHANGED <<d, lastReadChecksum, oobSinceRead, inSync, freshReads>>
            [] ReadVerdict(resp) = "found" ->
                 /\ d' = BotReadSet(d, remote)
                 /\ Return("ok", NoErr, BotReadSet(d, remote))
                 /\ lastReadChecksum' = remote.checksum
                 /\ oobSinceRead' = FALSE
                 /\ inSync' = TRUE
                 /\ freshReads' = IF freshReads < MaxReads THEN freshReads + 1 ELSE freshReads
  /\ UNCHANGED <<ceiling, kind, remote, op, input, elapsed, configuredPB, tvars>>

resourceAwsLexBotUpdate_Begin ==
  /\ kind = "bot" /\ pc = "idle" /\ life = "present"
  /\ \E chg \in BotChanges :
       /\ d' = BotChanged(d, chg)
       /\ input' = BotUpdateInput(BotChanged(d, chg))
       /\ configuredPB' = chg.process_behavior
  /\ Begin("Update", "update_put")
  /\ UNCHANGED <<kind, life, remote, lastReadChecksum, oobSinceRead, inSync, tvars>>
  /\ freshReads' = 0

resourceAwsLexBotUpdate_Put ==
  /\ kind = "bot" /\ pc = "update_put" /\ elapsed < MaxAttempts
  /\ \E resp \in PutResponses(remote) :
       /\ calls' = Append(calls, Call("PutBot", BotUpdateRequest, resp))
       /\ elapsed' = elapsed + 1
       /\ CASE BotRetryVerdict(resp) = "done" ->
                 /\ remote' = RemoteAfterPutBot(remote, BotUpdateRequest)
                 /\ inSync' = FALSE /\ freshReads' = 0
                 /\ pc' = "read"
                 /\ UNCHANGED <<result, err, life>>
            [] BotRetryVerdict(resp) = "fail" ->
                 /\ Return("error", BotUpdateError(RemoteErr(resp)), d)
                 /\ UNCHANGED <<remote, inSync, freshReads>>
            [] BotRetryVerdict(resp) = "retry" ->
                 /\ \E timeout \in TimeoutChoices :
                      IF timeout
                      THEN Return("error", BotUpdateError(BotStillError("bot still updating")), d)
                      ELSE UNCHANGED <<pc, result, err, life>>
                 /\ UNCHANGED <<remote, inSync, freshReads>>
  /\ UNCHANGED <<ceiling, kind, d, op, input, lastReadChecksum, oobSinceRead, configuredPB, tvars>>

resourceAwsLexBotDelete_Begin ==
  /\ kind = "bot" /\ pc = "idle" /\ life \in {"present", "tainted"}
  /\ Begin("Delete", "delete_call")
  /\ input' = BotDeleteInput(d)
  /\ UNCHANGED <<kind, d, life, remote, lastReadChecksum, oobSinceRead, inSync, freshReads,
                 configuredPB, tvars>>

resourceAwsLexBotDelete ==
  /\ kind = "bot" /\ pc = "delete_call" /\ elapsed < MaxAttempts
  /\ \E resp \in DeleteResponses(remote, BotDeleteInput(d)) :
       /\ calls' = Append(calls, Call("DeleteBot", BotDeleteInput(d), resp))
       /\ elapsed' = elapsed + 1
       /\ CASE BotRetryVerdict(resp) = "done" ->
                 /\ remote' = RemoteAfterDelete(remote)
                 /\ inSync' = FALSE /\ freshReads' = 0
                 /\ Return("ok", NoErr, d)
            [] BotRetryVerdict(resp) = "fail" ->
                 /\ Return("error", Errorf("error deleting bot", <<d.id>>, RemoteErr(resp)), d)
                 /\ UNCHANGED <<remote, inSync, freshReads>>
            [] BotRetryVerdict(resp) = "retry" ->
                 /\ \E timeout \in TimeoutChoices :
                      IF timeout
                      THEN Return("error",
                                  Errorf("error deleting bot", <<d.id>>,
                                         BotStillError("bot still deleting")), d)
                      ELSE UNCHANGED <<pc, result, err, life>>
                 /\ UNCHANGED <<remote, inSync, freshReads>>
  /\ UNCHANGED <<ceiling, kind, d, op, input, lastReadChecksum, oobSinceRead, configuredPB, tvars>>

\* the Importer's State function: the version is needed by the get request.
\* Import brings in an object the instance has never managed.
resourceAwsLexBotImport ==
  /\ kind = "bot" /\ pc = "idle" /\ life = "absent" /\ op \in {"none", "Import"}
  /\ \E id \in RawBotNames :
       /\ d' = [BlankBot EXCEPT !.id = id, !.version = "$LATEST"]
       /\ input' = [api |-> "Import", id |-> id]
  /\ op' = "Import" /\ calls' = <<>> /\ elapsed' = 0
  /\ pc' = "idle" /\ result' = "ok" /\ err' = NoErr
  /\ life' = "imported"
  /\ configuredPB' = ""
  /\ lastReadChecksum' = 0 /\ oobSinceRead' = FALSE /\ inSync' = FALSE /\ freshReads' = 0
  /\ UNCHANGED <<ceiling, kind, remote, tvars>>

---------------------------------------------------------------------------
(* aws_lex_bot_alias                                                       *)

AliasConfigs ==
  [bot_name : BotNames, bot_version : Versions, description : Descriptions,
   name : AliasNames]

\* bot_name and name are ForceNew
AliasChanges == [bot_version : Versions, description : Descriptions]

AliasPlanned(cfg) ==
  [id |-> EmptyStr, bot_name |-> cfg.bot_name, bot_version |-> cfg.bot_version,
   checksum |-> 0, description |-> cfg.description, name |-> cfg.name]

AliasChanged(dd, chg) ==
  [dd EXCEPT !.bot_version = chg.bot_version, !.description = chg.description]

\* resourceAwsLexBotAliasCreate: the PutBotAliasInput, which has no Checksum
AliasCreateInput(dd) ==
  [api |-> "PutBotAlias", BotName |-> dd.bot_name, BotVersion |-> dd.bot_version,
   Name |-> dd.name, Checksum |-> Nil, Description |-> GetOkStr(dd.description)]

\* resourceAwsLexBotAliasUpdate: the PutBotAliasInput, with the stored checksum
AliasUpdateInput(dd) ==
  [api |-> "PutBotAlias", BotName |-> dd.bot_name, BotVersion |-> dd.bot_version,
   Name |-> dd.id, Checksum |-> Ptr(dd.checksum),
   Description |-> GetOkStr(dd.description)]

\* resourceAwsLexBotAliasRead addresses the alias by bot_name and the id
AliasGetInput(dd) == [api |-> "GetBotAlias", BotName |-> dd.bot_name, Name |-> dd.id]

\* resourceAwsLexBotAliasDelete addresses it by bot_name and name, in both loops
AliasDeleteInput(dd) ==
  [api |-> "DeleteBotAlias", BotName |-> dd.bot_name, Name |-> dd.name]

AliasPollInput(del) == [api |-> "GetBotAlias", BotName |-> del.BotName, Name |-> del.Name]

\* resourceAwsLexBotAliasRead: the d.Set calls after a GetBotAlias that found it
AliasReadSet(dd, r) ==
  [dd EXCEPT !.bot_name = r.bot_name,
             !.bot_version = r.bot_version,
             !.checksum = r.checksum,
             !.description = r.description,
             !.name = r.name]

\* resourceAwsLexBotAliasRead: a not-found answer removes the alias from the state
AliasReadNotFound(dd) == [dd EXCEPT !.id = EmptyStr]

\* the request an attempt of Update's resource.Retry sends: the captured input
AliasUpdateRequest == input

\* the closure given to resource.Retry by Update and by Delete's first loop
AliasRetryVerdict(resp) ==
  IF resp = "Conflict" THEN "retry" ELSE IF resp = "OK" THEN "done" ELSE "fail"

\* the closure of Delete's second loop: a found alias and a not-found one both
\* return nil, any other error is not retryable
AliasPollVerdict(resp) ==
  IF resp # "OK"
  THEN (IF resp = "NotFound" THEN "done" ELSE "fail")
  ELSE "done"

AliasStillError(what) == Errorf(what, <<d.id>>, RemoteErr("Conflict"))

\* resourceAwsLexBotAliasUpdate: the error returned when resource.Retry fails
AliasUpdateError(e) == Errorf("error updating bot alias", <<d.id>>, e)

resourceAwsLexBotAliasCreate_Begin ==
  /\ kind = "alias" /\ pc = "idle" /\ life = "absent"
  /\ \E cfg \in AliasConfigs :
       /\ d' = AliasPlanned(cfg)
       /\ input' = AliasCreateInput(AliasPlanned(cfg))
  /\ Begin("Create", "create_put")
  /\ lastReadChecksum' = 0 /\ oobSinceRead' = FALSE /\ inSync' = FALSE /\ freshReads' = 0
  /\ UNCHANGED <<kind, life, remote, configuredPB, tvars>>

resourceAwsLexBotAliasCreate_Put ==
  /\ kind = "alias" /\ pc = "create_put"
  /\ \E resp \in PutResponses(remote) :
       /\ calls' = Append(calls, Call("PutBotAlias", input, resp))
       /\ IF ~CreateFails(resp)
          THEN /\ remote' = RemoteAfterPutBotAlias(remote, input)
               /\ inSync' = FALSE /\ freshReads' = 0
               /\ d' = [d EXCEPT !.id = d.name]
               /\ pc' = "read"
               /\ UNCHANGED <<result, err, life>>
          ELSE /\ Return("error",
                         Errorf("error creating bot alias", <<d.name>>, RemoteErr(resp)), d)
               /\ UNCHANGED <<remote, inSync, freshReads, d>>
  /\ UNCHANGED <<ceiling, kind, op, input, elapsed, lastReadChecksum, oobSinceRead,
                 configuredPB, tvars>>

resourceAwsLexBotAliasRead_Begin ==
  /\ kind = "alias" /\ pc = "idle" /\ life \in {"present", "tainted", "imported"}
  /\ Begin("Read", "read")
  /\ input' = NoInput
  /\ UNCHANGED <<kind, d, life, remote, lastReadChecksum, oobSinceRead, inSync, freshReads,
                 configuredPB, tvars>>

resourceAwsLexBotAliasRead ==
  /\ kind = "alias" /\ pc = "read"
  /\ \E resp \in GetResponses(remote, AliasGetInput(d)) :
       /\ calls' = Append(calls, Call("GetBotAlias", AliasGetInput(d), resp))
       /\ CASE ReadVerdict(resp) = "gone" ->
                 /\ d' = AliasReadNotFound(d)
                 /\ Return("ok", NoErr, AliasReadNotFound(d))
                 /\ freshReads' = 0
                 /\ UNCHANGED <<lastReadChecksum, oobSinceRead, inSync>>
            [] ReadVerdict(resp) = "fail" ->
                 /\ Return("error",
                           Errorf("error getting bot alias", <<d.id>>, RemoteErr(resp)), d)
                 /\ UNCHANGED <<d, lastReadChecksum, oobSinceRead, inSync, freshReads>>
            [] ReadVerdict(resp) = "found" ->
                 /\ d' = AliasReadSet(d, remote)
                 /\ Return("ok", NoErr, AliasReadSet(d, remote))
                 /\ lastReadChecksum' = remote.checksum
                 /\ oobSinceRead' = FALSE
                 /\ inSync' = TRUE
                 /\ freshReads' = IF freshReads < MaxReads THEN freshReads + 1 ELSE freshReads
  /\ UNCHANGED <<ceiling, kind, remote, op, input, elapsed, configuredPB, tvars>>

resourceAwsLexBotAliasUpdate_Begin ==
  /\ kind = "alias" /\ pc = "idle" /\ life = "present"
  /\ \E chg \in AliasChanges :
       /\ d' = AliasChanged(d, chg)
       /\ input' = AliasUpdateInput(AliasChanged(d, chg))
  /\ Begin("Update", "update_put")
  /\ UNCHANGED <<kind, life, remote, lastReadChecksum, oobSinceRead, inSync,
                 configuredPB, tvars>>
  /\ freshReads' = 0

resourceAwsLexBotAliasUpdate_Put ==
  /\ kind = "alias" /\ pc = "update_put" /\ elapsed < MaxAttempts
  /\ \E resp \in PutResponses(remote) :
       /\ calls' = Append(calls, Call("PutBotAlias", AliasUpdateRequest, resp))
       /\ elapsed' = elapsed + 1
       /\ CASE AliasRetryVerdict(resp) = "done" ->
                 /\ remote' = RemoteAfterPutBotAlias(remote, AliasUpdateRequest)
                 /\ inSync' = FALSE /\ freshReads' = 0
                 /\ pc' = "read"
                 /\ UNCHANGED <<result, err, life>>
            [] AliasRetryVerdict(resp) = "fail" ->
                 /\ Return("error", AliasUpdateError(RemoteErr(resp)), d)
                 /\ UNCHANGED <<remote, inSync, freshReads>>
            [] AliasRetryVerdict(resp) = "retry" ->
                 /\ \E timeout \in TimeoutChoices :
                      IF timeout
                      THEN Return("error",
                                  AliasUpdateError(AliasStillError("bot alias still updating")), d)
                      ELSE UNCHANGED <<pc, result, err, life>>
                 /\ UNCHANGED <<remote, inSync, freshReads>>
  /\ UNCHANGED <<ceiling, kind, d, op, input, lastReadChecksum, oobSinceRead, configuredPB, tvars>>

resourceAwsLexBotAliasDelete_Begin ==
  /\ kind = "alias" /\ pc = "idle" /\ life \in {"present", "tainted"}
  /\ Begin("Delete", "delete_call")
  /\ input' = AliasDeleteInput(d)
  /\ UNCHANGED <<kind, d, life, remote, lastReadChecksum, oobSinceRead, inSync, freshReads,
                 configuredPB, tvars>>

\* the first resource.Retry: DeleteBotAlias
resourceAwsLexBotAliasDelete_Call ==
  /\ kind = "alias" /\ pc = "delete_call" /\ elapsed < MaxAttempts
  /\ \E resp \in DeleteResponses(remote, input) :
       /\ calls' = Append(calls, Call("DeleteBotAlias", input, resp))
       /\ CASE AliasRetryVerdict(resp) = "done" ->
                 /\ remote' = RemoteAfterDelete(remote)
                 /\ inSync' = FALSE /\ freshReads' = 0
                 /\ pc' = "delete_poll"
                 /\ elapsed' = 0
                 /\ UNCHANGED <<result, err, life>>
            [] AliasRetryVerdict(resp) = "fail" ->
                 /\ Return("error",
                           Errorf("error deleting bot alias", <<d.id>>, RemoteErr(resp)), d)
                 /\ elapsed' = elapsed + 1
                 /\ UNCHANGED <<remote, inSync, freshReads>>
            [] AliasRetryVerdict(resp) = "retry" ->
                 /\ \E timeout \in TimeoutChoices :
                      IF timeout
                      THEN Return("error",
                                  Errorf("error deleting bot alias", <<d.id>>,
                                         AliasStillError("bot alias still deleting")), d)
                      ELSE UNCHANGED <<pc, result, err, life>>
                 /\ elapsed' = elapsed + 1
                 /\ UNCHANGED <<remote, inSync, freshReads>>
  /\ UNCHANGED <<ceiling, kind, d, op, input, lastReadChecksum, oobSinceRead, configuredPB, tvars>>

\* the second resource.Retry: GetBotAlias; its result is returned as it is
resourceAwsLexBotAliasDelete_Poll ==
  /\ kind = "alias" /\ pc = "delete_poll"
  /\ \E resp \in GetResponses(remote, AliasPollInput(input)) :
       /\ calls' = Append(calls, Call("GetBotAlias", AliasPollInput(input), resp))
       /\ elapsed' = elapsed + 1
       /\ CASE AliasPollVerdict(resp) = "done" -> Return("ok", NoErr, d)
            [] AliasPollVerdict(resp) = "fail" -> Return("error", RemoteErr(resp), d)
            [] AliasPollVerdict(resp) = "retry" ->
                 \E timeout \in TimeoutChoices :
                   IF timeout
                   THEN Return("error", RemoteErr(resp), d)
                   ELSE UNCHANGED <<pc, result, err, life>>
  /\ UNCHANGED <<ceiling, kind, d, remote, op, input, lastReadChecksum, oobSinceRead, inSync, freshReads,
                 configuredPB, tvars>>

\* strings.Split(s, "."): the parts between the dots, in order
RECURSIVE SplitDot(_)
SplitDot(s) ==
  IF \A i \in 1..Len(s) : s[i] # Dot
  THEN <<s>>
  ELSE LET i == CHOOSE k \in 1..Len(s) :
                  s[k] = Dot /\ \A j \in 1..(k - 1) : s[j] # Dot
       IN <<SubSeq(s, 1, i - 1)>> \o SplitDot(SubSeq(s, i + 1, Len(s)))

\* the identifiers the importer can be given
RECURSIVE StringsOfLen(_)
StringsOfLen(n) ==
  IF n = 0 THEN {<<>>}
  ELSE {Append(s, c) : s \in StringsOfLen(n - 1), c \in Alphabet \cup {Dot}}

ImportIds == UNION {StringsOfLen(n) : n \in 1..MaxIdLen}

\* resourceAwsLexBotAliasImport: the check on the parts
ImportAccepts(parts) == Len(parts) = 2

\* mutant: the name is taken from the first part
ImportSet_NameFromBotName(parts) ==
  [BlankAlias EXCEPT !.id = parts[2], !.bot_name = parts[1], !.name = parts[1]]

\* mutant: the id is taken from the first part
ImportSet_IdFromBotName(parts) ==
  [BlankAlias EXCEPT !.id = parts[1], !.bot_name = parts[1], !.name = parts[2]]

\* resourceAwsLexBotAliasImport: SetId and the two d.Set calls
ImportSet(parts) ==
  [BlankAlias EXCEPT !.id = parts[2], !.bot_name = parts[1], !.name = parts[2]]

\* Import brings in an object the instance has never managed.
resourceAwsLexBotAliasImport ==
  /\ kind = "alias" /\ pc = "idle" /\ life = "absent" /\ op \in {"none", "Import"}
  /\ \E id \in ImportIds :
       /\ input' = [api |-> "Import", id |-> id]
       /\ IF ImportAccepts(SplitDot(id))
          THEN /\ d' = ImportSet(SplitDot(id))
               /\ result' = "ok" /\ err' = NoErr
               /\ life' = LifeAfter("Import", "ok", ImportSet(SplitDot(id)), life)
          ELSE /\ d' = d
               /\ result' = "error"
               /\ err' = Errorf("invalid Lex Bot Alias resource id, expected BOT_NAME.BOT_ALIAS_NAME",
                                <<>>, NoErr)
               /\ life' = "absent"
  /\ op' = "Import" /\ calls' = <<>> /\ elapsed' = 0 /\ pc' = "idle"
  /\ lastReadChecksum' = 0 /\ oobSinceRead' = FALSE /\ inSync' = FALSE /\ freshReads' = 0
  /\ UNCHANGED <<ceiling, kind, remote, configuredPB, tvars>>

---------------------------------------------------------------------------
(* The environment: the remote object changes without the instance         *)

\* someone else makes a new revision
RemoteOutOfBandChange ==
  /\ remote.status = "present" /\ remote.checksum < MaxChecksum
  /\ remote' = [remote EXCEPT !.checksum = @ + 1]
  /\ oobSinceRead' = TRUE /\ inSync' = FALSE /\ freshReads' = 0
  /\ UNCHANGED <<ceiling, kind, d, life, pc, op, input, calls, elapsed, result, err,
                 lastReadChecksum, configuredPB, tvars>>

\* someone else deletes the object
RemoteOutOfBandDelete ==
  /\ remote.status = "present"
  /\ remote' = [remote EXCEPT !.status = "absent"]
  /\ oobSinceRead' = TRUE /\ inSync' = FALSE /\ freshReads' = 0
  /\ UNCHANGED <<ceiling, kind, d, life, pc, op, input, calls, elapsed, result, err,
                 lastReadChecksum, configuredPB, tvars>>

\* a delete the service accepted takes effect
RemoteSettle ==
  /\ remote.status = "deleting"
  /\ remote' = [remote EXCEPT !.status = "absent"]
  /\ inSync' = FALSE /\ freshReads' = 0
  /\ UNCHANGED <<ceiling, kind, d, life, pc, op, input, calls, elapsed, result, err,
                 lastReadChecksum, oobSinceRead, configuredPB, tvars>>

---------------------------------------------------------------------------
(* The specification of the two resources                                  *)

ExistingBots ==
  {[status |-> "present", name |-> n, checksum |-> 1, description |-> "x",
    version |-> "$LATEST", voice_id |-> Ptr("Salli")] : n \in BotNames}

ExistingAliases ==
  {[status |-> "present", bot_name |-> b, name |-> n, checksum |-> 1,
    description |-> "x", bot_version |-> "1"] : b \in {<<"a", "b">>}, n \in AliasNames}

TIdle ==
  /\ tFn = "none" /\ tIn = <<>> /\ tMid = <<>> /\ tOut = <<>> /\ tpc = "off"

Init ==
  /\ kind \in {"bot", "alias"}
  /\ d = IF kind = "bot" THEN BlankBot ELSE BlankAlias
  /\ remote \in IF kind = "bot" THEN {AbsentBot} \cup ExistingBots
                ELSE {AbsentAlias} \cup ExistingAliases
  /\ life = "absent"
  /\ pc = "idle" /\ op = "none" /\ input = NoInput /\ calls = <<>> /\ elapsed = 0
  /\ ceiling = 0
  /\ result = "none" /\ err = NoErr
  /\ lastReadChecksum = 0 /\ oobSinceRead = FALSE /\ inSync = FALSE
  /\ freshReads = 0
  /\ configuredPB = ""
  /\ TIdle

Next ==
  \/ resourceAwsLexBotCreate_Begin
  \/ resourceAwsLexBotCreate_Put
  \/ resourceAwsLexBotRead_Begin
  \/ resourceAwsLexBotRead
  \/ resourceAwsLexBotUpdate_Begin
  \/ resourceAwsLexBotUpdate_Put
  \/ resourceAwsLexBotDelete_Begin
  \/ resourceAwsLexBotDelete
  \/ resourceAwsLexBotImport
  \/ resourceAwsLexBotAliasCreate_Begin
  \/ resourceAwsLexBotAliasCreate_Put
  \/ resourceAwsLexBotAliasRead_Begin
  \/ resourceAwsLexBotAliasRead
  \/ resourceAwsLexBotAliasUpdate_Begin
  \/ resourceAwsLexBotAliasUpdate_Put
  \/ resourceAwsLexBotAliasDelete_Begin
  \/ resourceAwsLexBotAliasDelete_Call
  \/ resourceAwsLexBotAliasDelete_Poll
  \/ resourceAwsLexBotAliasImport
  \/ RemoteOutOfBandChange
  \/ RemoteOutOfBandDelete
  \/ RemoteSettle

Spec == Init /\ [][Next]_vars

\* a step of the running handler: the framework runs a handler to its return
\* and every conn call comes back
HandlerStep ==
  \/ resourceAwsLexBotCreate_Put
  \/ resourceAwsLexBotRead
  \/ resourceAwsLexBotUpdate_Put
  \/ resourceAwsLexBotDelete
  \/ resourceAwsLexBotAliasCreate_Put
  \/ resourceAwsLexBotAliasRead
  \/ resourceAwsLexBotAliasUpdate_Put
  \/ resourceAwsLexBotAliasDelete_Call
  \/ resourceAwsLexBotAliasDelete_Poll

SpecLive == Init /\ [][Next]_vars /\ WF_vars(HandlerStep)


---------------------------------------------------------------------------
(* Properties of the resources                                             *)

Puts == {i \in 1..Len(calls) : calls[i].api \in {"PutBot", "PutBotAlias"}}
Gets == {i \in 1..Len(calls) : calls[i].api \in {"GetBot", "GetBotAlias"}}

\* C1: BotAlias Delete returns success only when its last GetBotAlias poll
\* answered not-found; a poll that still finds the alias is followed by another
\* poll or, at the timeout, by an error.
C1_DeleteWaitsForNotFound ==
  (kind = "alias" /\ op = "Delete" /\ pc = "idle" /\ calls # <<>>) =>
    /\ result = "ok" =>
         Last(calls).api = "GetBotAlias" /\ Last(calls).resp = "NotFound"
    /\ (Last(calls).api = "GetBotAlias" /\ Last(calls).resp = "OK") =>
         result = "error"

\* C2: Bot Update sends the same PutBot request on every attempt, makes a
\* further attempt only after a conflict, stops at the first success and then
\* issues exactly one GetBot.
C2_UpdateRetriesSameRequest ==
  (kind = "bot" /\ op = "Update") =>
    /\ \A i \in Puts : calls[i].req = calls[1].req /\ calls[i].req = input
    /\ \A i \in Puts : (i + 1) \in Puts => calls[i].resp = "Conflict"
    /\ \A i \in Puts : calls[i].resp = "OK" =>
         /\ \A j \in Puts : j <= i
         /\ \/ pc = "read" /\ Gets = {} /\ Len(calls) = i
            \/ pc = "idle" /\ Gets = {i + 1} /\ Len(calls) = i + 1
    /\ Gets # {} => \E i \in Puts : calls[i].resp = "OK"
    /\ (pc = "idle" /\ result = "ok") => Cardinality(Gets) = 1

C2_Witness ==
  /\ kind = "bot" /\ op = "Update" /\ pc = "idle" /\ result = "ok"
  /\ Len(calls) = 4
  /\ calls[1].resp = "Conflict" /\ calls[2].resp = "Conflict"
  /\ calls[3].api = "PutBot" /\ calls[3].resp = "OK"
  /\ calls[4].api = "GetBot" /\ calls[4].resp = "OK"

\* C3: an Update (Bot or BotAlias) whose last put answered conflict ended at
\* the timeout: it returns an error that names the resource id and wraps the
\* retry loop's last error, never success.
C3_UpdateTimeoutIsError ==
  (op = "Update" /\ pc = "idle" /\ calls # <<>> /\ Last(calls).resp = "Conflict") =>
    /\ result = "error"
    /\ d.id # EmptyStr
    /\ err.msg = IF kind = "bot" THEN "error updating bot" ELSE "error updating bot alias"
    /\ err.names = <<d.id>>
    /\ err.cause # Nil
    /\ Deref(err.cause).msg =
         IF kind = "bot" THEN "bot still updating" ELSE "bot alias still updating"
    /\ Deref(err.cause).names = <<d.id>>

C3_Witness ==
  /\ kind = "alias" /\ op = "Update" /\ pc = "idle" /\ result = "error"
  /\ Len(calls) = MaxAttempts
  /\ \A i \in 1..Len(calls) : calls[i].resp = "Conflict"

\* C4: a Read (Bot or BotAlias) whose Get answers not-found empties the id,
\* writes no other attribute and returns no error.
C4_ReadNotFoundClearsId ==
  [][(pc = "read" /\ Len(calls') = Len(calls) + 1 /\ Last(calls').resp = "NotFound")
       => /\ d' = [d EXCEPT !.id = EmptyStr]
          /\ result' = "ok" /\ err' = NoErr /\ pc' = "idle"]_vars

C4_Witness ==
  /\ kind = "bot" /\ op = "Read" /\ pc = "idle" /\ result = "ok"
  /\ Last(calls).api = "GetBot" /\ Last(calls).resp = "NotFound"
  /\ d.id = EmptyStr /\ d.name # EmptyStr /\ d.checksum > 0

C6_ProcessBehaviorPreserved ==
  (kind = "bot" /\ configuredPB # "") => d.process_behavior = configuredPB

C6_Witness ==
  /\ kind = "bot" /\ op = "Read" /\ pc = "idle" /\ result = "ok"
  /\ Last(calls).resp = "OK"
  /\ configuredPB = ProcessBehaviorBuild /\ d.process_behavior = ProcessBehaviorBuild

\* an identifier of the form BOT_NAME.BOT_ALIAS_NAME: one dot, no empty part
WellFormedId(id) ==
  /\ Cardinality({i \in 1..Len(id) : id[i] = Dot}) = 1
  /\ id[1] # Dot /\ id[Len(id)] # Dot

\* C7: BotAlias Import rejects every identifier that is not two non-empty
\* parts around one dot, with an error and without changing the state.
C7_ImportRejectsMalformed ==
  [][(resourceAwsLexBotAliasImport /\ ~WellFormedId(input'.id))
       => (result' = "error" /\ d' = d)]_vars

\* C8: BotAlias Import of an accepted identifier B.A sets bot_name to B, name
\* and the id to A, and issues no remote call; B.A with B and A non-empty is
\* accepted.
C8_ImportSeedsKey ==
  (kind = "alias" /\ op = "Import" /\ pc = "idle") =>
    /\ WellFormedId(input.id) => result = "ok"
    /\ result = "ok" =>
         /\ input.id = d.bot_name \o <<Dot>> \o d.name
         /\ \A i \in 1..Len(d.bot_name) : d.bot_name[i] # Dot
         /\ \A i \in 1..Len(d.name) : d.name[i] # Dot
         /\ d.id = d.name
         /\ calls = <<>>

C8_Witness ==
  /\ kind = "alias" /\ op = "Import" /\ pc = "idle" /\ result = "ok"
  /\ input.id = <<"a", ".", "b">>
  /\ d.bot_name = <<"a">> /\ d.name = <<"b">> /\ d.id = <<"b">>


---------------------------------------------------------------------------
(* The translation layer: flat configuration values and API objects        *)
(*                                                                         *)
(* A flat map is a function from its keys; a key the map lacks is outside  *)
(* its DOMAIN. A *schema.Set is the sequence its List() returns, which has *)
(* no duplicates and whatever order the hashes give.                       *)

Contents == {"hi", "bye"}
ContentTypes == {"PlainText", "SSML", "CustomPayload"}
lexMessageGroupNumberMin == 1
lexMessageGroupNumberMax == 5
ResponseCards == {"", "card"}

Range(f) == {f[i] : i \in DOMAIN f}

\* aws.StringValue and aws.Int64Value: the zero value for a nil pointer
StringValue(p) == IF p = Nil THEN "" ELSE Deref(p)
Int64Value(p) == IF p = Nil THEN 0 ELSE Deref(p)

\* mutant: the group number is never copied
ExpandGroupNumber_Never(rawValue) == Nil

\* expandLexMessages: GroupNumber is set when the key is there and not 0
ExpandGroupNumber(rawValue) ==
  IF "group_number" \in DOMAIN rawValue /\ rawValue["group_number"] # 0
  THEN Ptr(rawValue["group_number"])
  ELSE Nil

expandLexMessages(rawValues) ==
  [i \in 1..Len(rawValues) |->
     [Content |-> Ptr(rawValues[i]["content"]),
      ContentType |-> Ptr(rawValues[i]["content_type"]),
      GroupNumber |-> ExpandGroupNumber(rawValues[i])]]

flattenLexMessages(messages) ==
  [i \in 1..Len(messages) |->
     [content |-> StringValue(messages[i].Content),
      content_type |-> StringValue(messages[i].ContentType),
      group_number |-> Int64Value(messages[i].GroupNumber)]]

\* expandLexSet: the items of the set that are maps, in List() order
expandLexSet(set) == SelectSeq(set, LAMBDA item : DOMAIN item \subseteq STRING)

\* expandLexStatement: ResponseCard is set when the key is there and not ""
ExpandResponseCard(m) ==
  IF "response_card" \in DOMAIN m /\ m["response_card"] # ""
  THEN Ptr(m["response_card"])
  ELSE Nil

expandLexStatement(m) ==
  [Messages |-> expandLexMessages(expandLexSet(m["message"])),
   ResponseCard |-> ExpandResponseCard(m)]

\* mutant: response_card is written without the nil check
flattenLexStatement_AlwaysCard(statement) ==
  [message |-> flattenLexMessages(statement.Messages),
   response_card |-> StringValue(statement.ResponseCard)]

flattenLexStatement(statement) ==
  IF statement.ResponseCard # Nil
  THEN [message |-> flattenLexMessages(statement.Messages),
        response_card |-> StringValue(statement.ResponseCard)]
  ELSE [message |-> flattenLexMessages(statement.Messages)]

\* the flat messages a configuration can hold: group_number left out, 0 (the
\* zero value the framework reads for an unset one) or within its range
GroupNumbers == {0} \cup (lexMessageGroupNumberMin..lexMessageGroupNumberMax)

FlatMessages ==
  [content : Contents, content_type : ContentTypes]
    \cup [content : Contents, content_type : ContentTypes, group_number : GroupNumbers]

\* the messages used inside statements: one content, the ends of the range
StatementMessages ==
  {m \in FlatMessages :
     /\ m["content"] = "hi"
     /\ "group_number" \in DOMAIN m =>
          m["group_number"] \in {0, lexMessageGroupNumberMin, lexMessageGroupNumberMax}}

\* the sets of 1..n messages, each as a sequence without duplicates
RECURSIVE SetsAsLists(_, _)
SetsAsLists(U, n) ==
  IF n = 0 THEN {<<>>}
  ELSE LET shorter == SetsAsLists(U, n - 1)
       IN shorter \cup {Append(l, m) : l \in {x \in shorter : Len(x) = n - 1},
                                       m \in U}

MessageSets ==
  {l \in SetsAsLists(StatementMessages, MaxMsgs) :
     Len(l) >= 1 /\ Cardinality(Range(l)) = Len(l)}

FlatStatements ==
  [message : MessageSets] \cup [message : MessageSets, response_card : ResponseCards]

ExpandMessagesStep ==
  /\ tFn = "messages" /\ tpc = "in"
  /\ tMid' = expandLexMessages(tIn)
  /\ tpc' = "expanded"
  /\ UNCHANGED <<tFn, tIn, tOut, rvars>>

FlattenMessagesStep ==
  /\ tFn = "messages" /\ tpc = "expanded"
  /\ tOut' = flattenLexMessages(tMid)
  /\ tpc' = "flattened"
  /\ UNCHANGED <<tFn, tIn, tMid, rvars>>

ExpandStatementStep ==
  /\ tFn = "statement" /\ tpc = "in"
  /\ tMid' = expandLexStatement(tIn)
  /\ tpc' = "expanded"
  /\ UNCHANGED <<tFn, tIn, tOut, rvars>>

FlattenStatementStep ==
  /\ tFn = "statement" /\ tpc = "expanded"
  /\ tOut' = flattenLexStatement(tMid)
  /\ tpc' = "flattened"
  /\ UNCHANGED <<tFn, tIn, tMid, rvars>>

\* --- single-object convention (resource_aws_lex.go: 14-26) ---
\* A Go value handed over as interface{} keeps its dynamic type: a list is
\* modelled with the type of the slice and its elements.
SliceOfInterface == "[]interface{}"
SliceOfMap == "[]map[string]interface{}"
Panic == [panic |-> TRUE]

\* v.([]interface{})[0].(map[string]interface{}): the type assertion panics
\* on any other dynamic type, the index panics on an empty slice.
expandLexObject(v) ==
  IF v.type # SliceOfInterface THEN Panic
  ELSE IF Len(v.elems) = 0 THEN Panic
  ELSE v.elems[1]

\* []map[string]interface{}{m}
flattenLexObject(m) == [type |-> SliceOfMap, elems |-> <<m>>]

\* d.Set followed by d.Get of a TypeList attribute: the reader hands the
\* list back as []interface{}
SchemaList(v) == [type |-> SliceOfInterface, elems |-> v.elems]

Objects == FlatMessages

\* what d.Get returns for a TypeList with MaxItems 1: no item or one item
StoredLists == {[type |-> SliceOfInterface, elems |-> <<>>]}
                 \cup {[type |-> SliceOfInterface, elems |-> <<m>>] : m \in Objects}

FlattenObjectStep ==
  /\ tFn = "object" /\ tpc = "in"
  /\ tMid' = flattenLexObject(tIn)
  /\ tpc' = "wrapped"
  /\ UNCHANGED <<tFn, tIn, tOut, rvars>>

SchemaStoreStep ==
  /\ tFn = "object" /\ tpc = "wrapped"
  /\ tMid' = SchemaList(tMid)
  /\ tpc' = "stored"
  /\ UNCHANGED <<tFn, tIn, tOut, rvars>>

ExpandObjectStep ==
  /\ tFn \in {"object", "list"} /\ tpc \in {"wrapped", "stored"}
  /\ tOut' = expandLexObject(tMid)
  /\ tpc' = "unwrapped"
  /\ UNCHANGED <<tFn, tIn, tMid, rvars>>

RIdle ==
  /\ kind = "bot" /\ d = BlankBot /\ remote = AbsentBot /\ life = "absent"
  /\ pc = "off" /\ op = "none" /\ input = NoInput /\ calls = <<>> /\ elapsed = 0
  /\ ceiling = 0
  /\ result = "none" /\ err = NoErr
  /\ lastReadChecksum = 0 /\ oobSinceRead = FALSE /\ inSync = FALSE
  /\ freshReads = 0
  /\ configuredPB = ""

InitTranslate ==
  /\ RIdle
  /\ tFn \in {"messages", "statement", "object", "list"}
  /\ tIn \in CASE tFn = "messages" -> {<<m>> : m \in FlatMessages}
              [] tFn = "statement" -> FlatStatements
              [] tFn = "object" -> Objects
              [] tFn = "list" -> {<<>>}
  /\ tMid \in IF tFn = "list" THEN StoredLists ELSE {<<>>}
  /\ tpc = IF tFn = "list" THEN "stored" ELSE "in"
  /\ tOut = <<>>

NextTranslate ==
  \/ ExpandMessagesStep
  \/ FlattenMessagesStep
  \/ ExpandStatementStep
  \/ FlattenStatementStep
  \/ FlattenObjectStep
  \/ SchemaStoreStep
  \/ ExpandObjectStep

SpecTranslate == InitTranslate /\ [][NextTranslate]_vars

---------------------------------------------------------------------------
(* Properties of the translation layer                                     *)

\* a flat message with an absent group_number read as 0
WithGroupNumber(m) ==
  [content |-> m["content"], content_type |-> m["content_type"],
   group_number |-> IF "group_number" \in DOMAIN m THEN m["group_number"] ELSE 0]

\* C9: flattenLexMessages(expandLexMessages([m])) is one flat message with
\* the content, content_type and group_number of m, an absent group_number
\* and a group_number of 0 both coming back as 0.
C9_MessageRoundTrip ==
  (tFn = "messages" /\ tpc = "flattened") =>
    /\ Len(tOut) = 1
    /\ DOMAIN tOut[1] = {"content", "content_type", "group_number"}
    /\ tOut[1]["content"] = tIn[1]["content"]
    /\ tOut[1]["content_type"] = tIn[1]["content_type"]
    /\ tOut[1]["group_number"] =
         IF "group_number" \in DOMAIN tIn[1] THEN tIn[1]["group_number"] ELSE 0

C9_Witness ==
  /\ tFn = "messages" /\ tpc = "flattened"
  /\ "group_number" \in DOMAIN tIn[1] /\ tIn[1]["group_number"] = lexMessageGroupNumberMax
  /\ tMid[1].GroupNumber = Ptr(lexMessageGroupNumberMax)
  /\ tOut[1]["group_number"] = lexMessageGroupNumberMax

\* C10: flattenLexStatement(expandLexStatement(s)) has the messages of s as
\* a set, and a response_card exactly when s has a non-empty one, with its
\* value.
C10_StatementRoundTrip ==
  (tFn = "statement" /\ tpc = "flattened") =>
    LET hasCard == "response_card" \in DOMAIN tIn /\ tIn["response_card"] # ""
    IN /\ Range(tOut["message"]) = {WithGroupNumber(m) : m \in Range(tIn["message"])}
       /\ ("response_card" \in DOMAIN tOut) <=> hasCard
       /\ hasCard => tOut["response_card"] = tIn["response_card"]

C10_Witness ==
  /\ tFn = "statement" /\ tpc = "flattened"
  /\ Len(tIn["message"]) = MaxMsgs
  /\ "response_card" \in DOMAIN tIn /\ tIn["response_card"] = "card"
  /\ "response_card" \in DOMAIN tOut /\ tOut["response_card"] = "card"
  /\ Cardinality(Range(tOut["message"])) = MaxMsgs

\* C11: expandLexObject(flattenLexObject(m)) = m for every map m, and
\* expandLexObject of an empty list aborts instead of returning an empty map.
C11_ObjectRoundTrip ==
  /\ (tFn = "object" /\ tpc = "unwrapped") => tOut = tIn
  /\ (tFn = "list" /\ tpc = "unwrapped" /\ Len(tMid.elems) = 0) => tOut = Panic

---------------------------------------------------------------------------
(* Properties of the handlers: errors, validation, ordering                *)

OperationMessages ==
  {"error creating bot", "error getting bot", "error updating bot", "error deleting bot",
   "error creating bot alias", "error getting bot alias", "error updating bot alias",
   "error deleting bot alias"}

\* C12: every error returned by Create, Read, Update or Delete of a Bot or a
\* BotAlias carries an operation name and the name or id of the resource.
C12_ErrorsAnnotated ==
  (pc = "idle" /\ result = "error" /\ op \in {"Create", "Read", "Update", "Delete"}) =>
    (err.msg \in OperationMessages /\ err.names # <<>>)

\* a name within its length range that matches ^([A-Za-z]_?)+$
NameOk(s, min, max) == StringLenBetween(s, min, max) /\ MatchesNameRegex(s)

\* a version that is $LATEST or decimal digits, 1 to 64 characters long
VersionOk(v) ==
  /\ StringLenBetween(VersionText(v), lexVersionMinLength, lexVersionMaxLength)
  /\ \/ VersionText(v) = LatestText
     \/ \A i \in 1..Len(VersionText(v)) : VersionText(v)[i] \in Digits

RequestOk(req) ==
  CASE req.api = "PutBot" -> NameOk(req.Name, lexBotNameMinLength, lexBotNameMaxLength)
    [] req.api = "GetBot" ->
         /\ NameOk(req.Name, lexBotNameMinLength, lexBotNameMaxLength)
         /\ VersionOk(req.VersionOrAlias)
    [] req.api = "DeleteBot" -> NameOk(req.Name, lexBotNameMinLength, lexBotNameMaxLength)
    [] req.api = "PutBotAlias" ->
         /\ NameOk(req.BotName, lexBotNameMinLength, lexBotNameMaxLength)
         /\ NameOk(req.Name, lexNameMinLength, lexNameMaxLength)
         /\ VersionOk(req.BotVersion)
    [] req.api \in {"GetBotAlias", "DeleteBotAlias"} ->
         /\ NameOk(req.BotName, lexBotNameMinLength, lexBotNameMaxLength)
         /\ NameOk(req.Name, lexNameMinLength, lexNameMaxLength)

\* C13: every request a handler sends carries names that match the name
\* pattern within their length range and versions that are $LATEST or
\* decimal digits.
C13_ValidatedBeforeNetwork ==
  \A i \in 1..Len(calls) : RequestOk(calls[i].req)

AliasDocumentedTimeoutUpdate == 5
AliasDocumentedTimeoutDelete == 5

\* C14: with no timeouts configured, the retry ceiling of aws_lex_bot_alias is
\* 5 minutes in Update and 5 minutes in Delete.
C14_AliasDefaultTimeouts ==
  /\ (kind = "alias" /\ op = "Update") => ceiling = AliasDocumentedTimeoutUpdate
  /\ (kind = "alias" /\ op = "Delete") => ceiling = AliasDocumentedTimeoutDelete

\* C15: Bot Create issues exactly one PutBot, first; the id is set, to the
\* configured name, only after that PutBot succeeded, and then exactly one
\* GetBot follows; if the PutBot fails the id stays empty, no GetBot is
\* issued and Create returns an error.
C15_CreateOrdering ==
  (kind = "bot" /\ op = "Create") =>
    /\ Cardinality(Puts) <= 1 /\ Cardinality(Gets) <= 1
    /\ Len(calls) >= 1 => (calls[1].api = "PutBot" /\ calls[1].req = input)
    /\ pc = "create_put" => (calls = <<>> /\ d.id = EmptyStr)
    /\ pc = "read" =>
         (Len(calls) = 1 /\ calls[1].resp = "OK" /\ d.id = input.Name /\ d.id # EmptyStr)
    /\ pc = "idle" =>
         IF calls[1].resp = "OK"
         THEN /\ Len(calls) = 2 /\ calls[2].api = "GetBot"
              /\ calls[2].req.Name = input.Name
              /\ d.id \in {input.Name, EmptyStr}
              /\ d.id = EmptyStr <=> calls[2].resp = "NotFound"
              /\ result = "error" <=> calls[2].resp = "Other"
         ELSE /\ Len(calls) = 1 /\ d.id = EmptyStr
              /\ result = "error" /\ err.msg = "error creating bot"

C15_Witness ==
  /\ kind = "bot" /\ op = "Create" /\ pc = "idle" /\ result = "ok"
  /\ Len(calls) = 2 /\ calls[1].resp = "OK" /\ calls[2].resp = "OK"
  /\ d.id = input.Name /\ d.id # EmptyStr /\ d.checksum = remote.checksum

\* C16: when a PutBot of Bot Update answers an error that is not a conflict,
\* Update returns at that step with an error that wraps it, no PutBot and no
\* GetBot follows, and the local state, checksum and id included, is left as
\* it was.
C16_UpdateStopsOnOtherError ==
  [][(kind = "bot" /\ pc = "update_put" /\ Len(calls') = Len(calls) + 1
        /\ Last(calls').resp \notin {"OK", "Conflict"})
       => /\ pc' = "idle" /\ result' = "error"
          /\ err' = BotUpdateError(RemoteErr(Last(calls').resp))
          /\ d' = d /\ d'.checksum = lastReadChecksum /\ d'.id = input.Name
          /\ \A i \in 1..Len(calls') : calls'[i].api = "PutBot"
          /\ \A i \in 1..Len(calls) : calls'[i].resp = "Conflict"]_vars

C16_Witness ==
  /\ kind = "bot" /\ op = "Update" /\ pc = "idle" /\ result = "error"
  /\ Len(calls) = 2 /\ calls[1].resp = "Conflict" /\ calls[2].resp = "Other"
  /\ err.cause = Ptr(RemoteErr("Other"))
  /\ d.id # EmptyStr /\ d.checksum = lastReadChecksum

\* C17: Bot Delete sends DeleteBot again only after a conflict; any other
\* error, not-found included, ends Delete at that step with an error, and a
\* success ends it with no error and no further call.
C17_DeleteRetriesOnlyConflict ==
  [][(kind = "bot" /\ pc = "delete_call" /\ Len(calls') = Len(calls) + 1)
       => /\ \A i \in 1..Len(calls') : calls'[i].api = "DeleteBot"
          /\ \A i \in 1..Len(calls) : calls'[i].resp = "Conflict"
          /\ CASE Last(calls').resp = "OK" ->
                    pc' = "idle" /\ result' = "ok" /\ err' = NoErr
               [] Last(calls').resp = "Conflict" ->
                    \/ pc' = "delete_call" /\ result' = "none"
                    \/ pc' = "idle" /\ result' = "error"
               [] OTHER ->
                    /\ pc' = "idle" /\ result' = "error"
                    /\ err'.msg = "error deleting bot"
                    /\ err'.cause = Ptr(RemoteErr(Last(calls').resp))]_vars

C17_Witness ==
  /\ kind = "bot" /\ op = "Delete" /\ pc = "idle" /\ result = "error"
  /\ Len(calls) = 2 /\ calls[1].resp = "Conflict" /\ calls[2].resp = "NotFound"
  /\ remote.status = "absent" /\ d.id # EmptyStr

\* C18: whatever the remote answers, an Update or a Delete of a Bot or a
\* BotAlias that has started returns.
C18_Termination ==
  (op \in {"Update", "Delete"} /\ pc # "idle") ~> (pc = "idle")

C18_Witness ==
  /\ kind = "bot" /\ op = "Delete" /\ pc = "idle" /\ result = "error"
  /\ Len(calls) = MaxAttempts
  /\ \A i \in 1..Len(calls) : calls[i].resp = "Conflict"
  /\ err.cause = Ptr(BotStillError("bot still deleting"))

\* C19: a Read (Bot or BotAlias) whose Get answers an error other than
\* not-found returns an error that wraps it and leaves the local state as it
\* was: the id is kept and no attribute is written.
C19_ReadErrorKeepsState ==
  [][(pc = "read" /\ Len(calls') = Len(calls) + 1
        /\ Last(calls').resp \notin {"OK", "NotFound"})
       => /\ d' = d
          /\ pc' = "idle" /\ result' = "error"
          /\ err'.msg = (IF kind = "bot" THEN "error getting bot" ELSE "error getting bot alias")
          /\ err'.cause = Ptr(RemoteErr(Last(calls').resp))]_vars

C19_Witness ==
  /\ kind = "alias" /\ op = "Read" /\ pc = "idle" /\ result = "error"
  /\ Last(calls).api = "GetBotAlias" /\ Last(calls).resp = "Other"
  /\ d.id # EmptyStr /\ d.checksum > 0 /\ d.checksum < remote.checksum

\* C20: whenever the id of a BotAlias is not empty it equals the name
\* attribute, and every request of the running handler, of Read and Update
\* (by bot_name and id) and of Delete (by bot_name and name), addresses the
\* pair (bot_name, name).
C20_AliasKeyConsistent ==
  (kind = "alias" /\ d.id # EmptyStr) =>
    /\ d.id = d.name
    /\ \A i \in 1..Len(calls) :
         calls[i].req.BotName = d.bot_name /\ calls[i].req.Name = d.name
    /\ AliasGetInput(d).Name = AliasDeleteInput(d).Name
    /\ AliasUpdateInput(d).Name = AliasDeleteInput(d).Name

C20_Witness ==
  /\ kind = "alias" /\ op = "Delete" /\ pc = "idle" /\ result = "ok"
  /\ Len(calls) = 2
  /\ calls[1].api = "DeleteBotAlias" /\ calls[2].api = "GetBotAlias"
  /\ d.id # EmptyStr /\ calls[1].req.Name = d.id /\ calls[2].req.Name = d.id
  /\ calls[2].resp = "NotFound"

\* C21: a put of Create (Bot or BotAlias) that answers a conflict, like any
\* other error, ends Create at that step with an error: the put is sent once.
C21_CreateDoesNotRetry ==
  [][(pc = "create_put" /\ Len(calls') = Len(calls) + 1 /\ Last(calls').resp # "OK")
       => /\ Len(calls') = 1
          /\ pc' = "idle" /\ result' = "error"
          /\ err'.msg = (IF kind = "bot" THEN "error creating bot"
                         ELSE "error creating bot alias")
          /\ err'.cause = Ptr(RemoteErr(Last(calls').resp))
          /\ d'.id = EmptyStr /\ remote' = remote]_vars

C21_Witness ==
  /\ kind = "alias" /\ op = "Create" /\ pc = "idle" /\ result = "error"
  /\ Len(calls) = 1 /\ calls[1].api = "PutBotAlias" /\ calls[1].resp = "Conflict"
  /\ d.id = EmptyStr

\* C22: when Create or Update (Bot or BotAlias) returns no error, the id is
\* not empty and the local state holds what the Get of the closing Read
\* returned; a not-found answer to that Get does not give a successful
\* Create or Update with an empty id.
C22_SuccessHasId ==
  (op \in {"Create", "Update"} /\ pc = "idle" /\ result = "ok") =>
    /\ d.id # EmptyStr
    /\ Last(calls).resp = "OK"
    /\ d.checksum = lastReadChecksum

\* C23: a Read (Bot or BotAlias) that gets data, right after a Read that got
\* data, with the remote and the local state not changed in between, leaves
\* every attribute as the first Read left it.
C23_ReadIdempotent ==
  [][(pc = "read" /\ freshReads >= 1 /\ Len(calls') = Len(calls) + 1
        /\ Last(calls').resp = "OK")
       => (d' = d /\ result' = "ok")]_vars

C23_Witness ==
  /\ kind = "bot" /\ op = "Read" /\ pc = "idle" /\ result = "ok"
  /\ freshReads = MaxReads
  /\ configuredPB = "" /\ d.process_behavior = ProcessBehaviorSave
  /\ d.voice_id = "Salli" /\ d.version = "$LATEST" /\ d.checksum = remote.checksum

============================================================================
